---- MODULE Spec2Model ----
(***************************************************************************)
(* Opportunity and Application lifecycle of VibhuAdvisorConnect.           *)
(*                                                                         *)
(* The state is the content of the JSON collections the DataService reads  *)
(* and writes (opportunities.json, applications.json).  A handler is an    *)
(* operator from the collections it finds and its request to the           *)
(* collections it leaves and the response it sends; each action is one     *)
(* Express handler, run from its first line to its response with no other  *)
(* request in between.  The last part of the module runs the handlers step *)
(* by step instead, one storage read or write at a time, with several      *)
(* requests in flight.                                                     *)
(*                                                                         *)
(* Text is a sequence of one-character strings, so that trim, toLowerCase  *)
(* and includes are computed and not assumed.  Records are functions from  *)
(* field names to values; a field a JavaScript object does not carry is    *)
(* absent from the DOMAIN.  The fields applications, matchedLPs, priority, *)
(* companyName and updatedAt of a stored opportunity, and the denormalised *)
(* name fields of an application, are written but decide no branch of the  *)
(* handlers modelled here and are left out of the records.                 *)
(***************************************************************************)
EXTENDS Integers, Sequences, FiniteSets, TLC

VARIABLES
    opportunities,  \* content of opportunities.json, in file order
    applications,   \* content of applications.json, in file order
    clock,          \* the time new Date() reports, in creations so far
    userStatus,     \* the status field of each account of users.json
    inflight        \* the requests being served, each at its pending read or write

vars == <<opportunities, applications, clock, userStatus, inflight>>

----------------------------------------------------------------------------
(* Bounds of the model *)

MaxOpps == 2

MaxApps == 2

MaxClock == 3

MaxViews == 1

MaxIdParam == 2

\* the requests that can be in flight together
MaxInflight == 2

----------------------------------------------------------------------------
(* JavaScript values *)

\* undefined, null and NaN where a number is expected: no stored id, count
\* or timestamp equals it, as x === NaN is false for every x.
Undefined == 0 - 1

Has(rec, f) == f \in DOMAIN rec

\* rec.f for a numeric field, undefined when the object has no such field
Num(rec, f) == IF Has(rec, f) THEN rec[f] ELSE Undefined

\* (x || 0) for a number or undefined
OrZero(x) == IF x = Undefined THEN 0 ELSE x

\* { ...rec, ...updates }
Merge(rec, updates) ==
    [f \in (DOMAIN rec) \cup (DOMAIN updates) |->
        IF f \in DOMAIN updates THEN updates[f] ELSE rec[f]]

\* parseInt of a decimal path parameter, given as its sequence of digits;
\* parseInt(undefined) is NaN
RECURSIVE DigitsToInt(_)
DigitsToInt(ds) ==
    IF ds = <<>> THEN 0
    ELSE 10 * DigitsToInt(SubSeq(ds, 1, Len(ds) - 1)) + ds[Len(ds)]

ParseInt(params, name) ==
    IF Has(params, name) /\ params[name] # <<>>
    THEN DigitsToInt(params[name])
    ELSE Undefined

\* String.prototype.trim
RECURSIVE TrimLeft(_)
TrimLeft(s) ==
    IF s # <<>> /\ Head(s) = " " THEN TrimLeft(Tail(s)) ELSE s

RECURSIVE TrimRight(_)
TrimRight(s) ==
    IF s # <<>> /\ s[Len(s)] = " " THEN TrimRight(SubSeq(s, 1, Len(s) - 1)) ELSE s

Trim(s) == TrimRight(TrimLeft(s))

\* String.prototype.toLowerCase on the letters the model uses
LowerChar(c) ==
    CASE c = "M" -> "m"
      [] c = "A" -> "a"
      [] OTHER -> c

ToLowerCase(s) == [i \in 1..Len(s) |-> LowerChar(s[i])]

\* s.includes(t)
Includes(s, t) ==
    \E i \in 1..(Len(s) + 1) :
        /\ i + Len(t) - 1 <= Len(s)
        /\ SubSeq(s, i, i + Len(t) - 1) = t

\* !body.f || !body.f.trim() for a text field of a request body
Blank(body, f) == ~Has(body, f) \/ body[f] = <<>> \/ Trim(body[f]) = <<>>

\* array.filter(pred) for arrays of text
RECURSIVE FilterNonBlank(_)
FilterNonBlank(arr) ==
    IF arr = <<>> THEN <<>>
    ELSE IF Head(arr) # <<>> /\ Trim(Head(arr)) # <<>>
         THEN <<Head(arr)>> \o FilterNonBlank(Tail(arr))
         ELSE FilterNonBlank(Tail(arr))

----------------------------------------------------------------------------
(* users.json: the accounts requests are made with.  An LP's profile      *)
(* carries its expertise, under expertise or under expertiseAreas.         *)

Users == <<
    [id |-> 1, role |-> "Company"],
    [id |-> 2, role |-> "LP", expertise |-> << <<"M", "a">> >>],
    [id |-> 3, role |-> "Company"],
    [id |-> 4, role |-> "LP", expertiseAreas |-> << <<"f">>, <<"x">> >>],
    [id |-> 5, role |-> "Admin"] >>

UserIds == {Users[i].id : i \in 1..Len(Users)}

GetUserById(id) == CHOOSE u \in {Users[i] : i \in 1..Len(Users)} : u.id = id

----------------------------------------------------------------------------
(* DataService: each method reads a whole collection, changes it in memory *)
(* and writes the whole collection back.  The operators take the content   *)
(* read and give the content written.                                      *)

\* array.findIndex(x => x.id === id) + 1, 0 when there is none
IndexOfId(coll, id) ==
    IF \E i \in 1..Len(coll) : coll[i].id = id
    THEN CHOOSE i \in 1..Len(coll) :
            /\ coll[i].id = id
            /\ \A j \in 1..(i - 1) : coll[j].id # id
    ELSE 0

\* Math.max(...coll.map(x => x.id), 0) + 1
NewId(coll) ==
    LET ids == {coll[i].id : i \in 1..Len(coll)} \cup {0}
    IN  (CHOOSE m \in ids : \A n \in ids : n <= m) + 1

DsUpdateOpportunity(opps, id, updates) ==
    LET i == IndexOfId(opps, id)
    IN  IF i = 0 THEN opps ELSE [opps EXCEPT ![i] = Merge(@, updates)]

DsDeleteOpportunity(opps, id) == SelectSeq(opps, LAMBDA o : o.id # id)

\* opportunityData.status || 'open'
StatusOrOpen(data) ==
    IF Has(data, "status") /\ data.status # "" THEN data.status ELSE "open"

DsCreateOpportunity(opps, data, now) ==
    Append(opps,
           Merge(Merge([id |-> NewId(opps)], data),
                 [status |-> StatusOrOpen(data), createdAt |-> now]))

DsGetApplicationsByOpportunity(apps, opportunityId) ==
    SelectSeq(apps, LAMBDA a : a.opportunityId = opportunityId)

\* DsHasApplied with its two comparisons crossed: the duplicate check that
\* C2 must tell from the real one
HasAppliedCrossed(apps, lpId, opportunityId) ==
    \E i \in 1..Len(apps) :
        apps[i].lpId = opportunityId /\ apps[i].opportunityId = lpId

DsHasApplied(apps, lpId, opportunityId) ==
    \E i \in 1..Len(apps) :
        apps[i].lpId = lpId /\ apps[i].opportunityId = opportunityId

DsCreateApplication(apps, data, now) ==
    Append(apps,
           Merge(Merge([id |-> NewId(apps)], data),
                 [status |-> "pending", createdAt |-> now]))

\* a counter that adds one to the stored count in place of recounting: the
\* synchronisation that C9 must tell from the real one
IncrementApplicantCount(opps, apps, opportunityId) ==
    DsUpdateOpportunity(opps, opportunityId,
        [applicantCount |->
            OrZero(Num(opps[IndexOfId(opps, opportunityId)], "applicantCount")) + 1])

DsSyncOpportunityApplicantCount(opps, apps, opportunityId) ==
    DsUpdateOpportunity(opps, opportunityId,
        [applicantCount |-> Len(DsGetApplicationsByOpportunity(apps, opportunityId))])

DsUpdateApplication(apps, id, updates) ==
    LET i == IndexOfId(apps, id)
    IN  IF i = 0 THEN apps ELSE [apps EXCEPT ![i] = Merge(@, updates)]

----------------------------------------------------------------------------
(* Responses.  val is the number a response carries (the new viewCount,    *)
(* the applicationId), list the array a listing returns.                   *)

Response(op, actor, id, code, msg, val, list) ==
    [op |-> op, actor |-> actor, id |-> id, code |-> code, msg |-> msg,
     val |-> val, list |-> list]

\* what a handler leaves behind: the collections, the clock, the response
Outcome(opps, apps, now, res) ==
    [opps |-> opps, apps |-> apps, clock |-> now, res |-> res]

\* a handler that returns early writes nothing
Reject(st, op, actor, id, code, msg) ==
    Outcome(st.opps, st.apps, st.clock,
            Response(op, actor, id, code, msg, Undefined, <<>>))

----------------------------------------------------------------------------
(* opportunitiesController *)

IsCompany(user) == user.role = "Company"

IsLP(user) == user.role = "LP"

IsAdmin(user) == user.role = "Admin"

\* the field validation shared by createOpportunity and updateOpportunity:
\* the message of the first failing check, "" when all pass
ValidateFields(body) ==
    IF Blank(body, "title") THEN "Title is required"
    ELSE IF Blank(body, "description") THEN "Description is required"
    ELSE IF ~Has(body, "requiredExpertise") \/ Len(body.requiredExpertise) = 0
         THEN "At least one area of required expertise is needed"
    ELSE IF Blank(body, "timeCommitment") THEN "Time commitment is required"
    ELSE IF Blank(body, "compensation") THEN "Compensation details are required"
    ELSE ""

\* the whole body with the five fields cleaned: the update data that C13
\* must tell from the real one
WholeBodyCleaned(body) ==
    Merge(body,
          [title |-> Trim(body.title),
           description |-> Trim(body.description),
           requiredExpertise |-> FilterNonBlank(body.requiredExpertise),
           timeCommitment |-> Trim(body.timeCommitment),
           compensation |-> Trim(body.compensation)])

\* the five editable fields, trimmed and filtered
EditableFields(body) ==
    [title |-> Trim(body.title),
     description |-> Trim(body.description),
     requiredExpertise |-> FilterNonBlank(body.requiredExpertise),
     timeCommitment |-> Trim(body.timeCommitment),
     compensation |-> Trim(body.compensation)]

\* opportunityData that starts a listing as a draft: the defaults that C8
\* must tell from the real ones
OpportunityDataDraft(user, body) ==
    Merge(EditableFields(body),
          [companyId |-> user.id, status |-> "draft",
           viewCount |-> 0, applicantCount |-> 0])

\* opportunityData of createOpportunity
OpportunityData(user, body) ==
    Merge(EditableFields(body),
          [companyId |-> user.id, status |-> "open",
           viewCount |-> 0, applicantCount |-> 0])

CreateOpportunityHandler(st, actor, body) ==
    LET user == GetUserById(actor)
    IN  IF ~IsCompany(user)
        THEN Reject(st, "create", actor, Undefined, 403, "Access denied. Company role required.")
        ELSE IF ValidateFields(body) # ""
        THEN Reject(st, "create", actor, Undefined, 400, ValidateFields(body))
        ELSE LET opps == DsCreateOpportunity(st.opps, OpportunityData(user, body), st.clock)
                 new == opps[Len(opps)]
             IN  Outcome(opps, st.apps, st.clock + 1,
                         Response("create", actor, new.id, 201, "", Undefined, <<new>>))

\* an ownership check that looks at the role alone: the check that C4 must
\* tell from the real one
CompanyOrAdmin(user, opportunity) == user.role \in {"Company", "Admin"}

\* the ownership check of update, patch, delete and the application handlers
OwnerOrAdmin(user, opportunity) ==
    ~(opportunity.companyId # user.id /\ user.role # "Admin")

\* a view counter that counts the first view only: the counter that C7 must
\* tell from the real one
FirstViewOnly(opportunity) ==
    IF OrZero(Num(opportunity, "viewCount")) = 0 THEN 1 ELSE opportunity.viewCount

\* const newViewCount = (opportunity.viewCount || 0) + 1
NewViewCount(opportunity) == OrZero(Num(opportunity, "viewCount")) + 1

GetOpportunityByIdHandler(st, actor, params) ==
    LET id == ParseInt(params, "id")
        i == IndexOfId(st.opps, id)
    IN  IF i = 0
        THEN Reject(st, "getById", actor, id, 404, "Opportunity not found")
        ELSE Outcome(st.opps, st.apps, st.clock,
                     Response("getById", actor, id, 200, "", Undefined, <<st.opps[i]>>))

TrackOpportunityViewHandler(st, actor, params) ==
    LET id == ParseInt(params, "id")
        i == IndexOfId(st.opps, id)
    IN  IF i = 0
        THEN Reject(st, "trackView", actor, id, 404, "Opportunity not found")
        ELSE LET newViewCount == NewViewCount(st.opps[i])
             IN  Outcome(DsUpdateOpportunity(st.opps, id, [viewCount |-> newViewCount]),
                         st.apps, st.clock,
                         Response("trackView", actor, id, 200, "View tracked successfully",
                                  newViewCount, <<>>))

UpdateOpportunityHandler(st, actor, params, body) ==
    LET user == GetUserById(actor)
        id == ParseInt(params, "id")
        i == IndexOfId(st.opps, id)
    IN  IF ~IsCompany(user)
        THEN Reject(st, "update", actor, id, 403, "Access denied. Company role required.")
        ELSE IF i = 0
        THEN Reject(st, "update", actor, id, 404, "Opportunity not found")
        ELSE IF ~OwnerOrAdmin(user, st.opps[i])
        THEN Reject(st, "update", actor, id, 403, "Access denied. You can only update your own opportunities.")
        ELSE IF ValidateFields(body) # ""
        THEN Reject(st, "update", actor, id, 400, ValidateFields(body))
        ELSE LET opps == DsUpdateOpportunity(st.opps, id, EditableFields(body))
             IN  Outcome(opps, st.apps, st.clock,
                         Response("update", actor, id, 200, "", Undefined, <<opps[i]>>))

\* updates.status && !['open', 'closed', 'filled'].includes(updates.status)
InvalidPatchStatus(updates) ==
    /\ Has(updates, "status")
    /\ updates.status # ""
    /\ updates.status \notin {"open", "closed", "filled"}

PatchOpportunityHandler(st, actor, params, updates) ==
    LET user == GetUserById(actor)
        id == ParseInt(params, "id")
        i == IndexOfId(st.opps, id)
    IN  IF i = 0
        THEN Reject(st, "patch", actor, id, 404, "Opportunity not found")
        ELSE IF ~OwnerOrAdmin(user, st.opps[i])
        THEN Reject(st, "patch", actor, id, 403, "Access denied. You can only update your own opportunities.")
        ELSE IF InvalidPatchStatus(updates)
        THEN Reject(st, "patch", actor, id, 400, "Invalid status. Must be one of: open, closed, filled")
        ELSE LET opps == DsUpdateOpportunity(st.opps, id, updates)
             IN  Outcome(opps, st.apps, st.clock,
                         Response("patch", actor, id, 200, "", Undefined, <<opps[i]>>))

\* a delete that also removes the Applications of the opportunity: the
\* delete that C14 must tell from the real one
DeleteWithApplications(st, actor, params) ==
    LET user == GetUserById(actor)
        id == ParseInt(params, "id")
        i == IndexOfId(st.opps, id)
    IN  IF i = 0
        THEN Reject(st, "delete", actor, id, 404, "Opportunity not found")
        ELSE IF ~OwnerOrAdmin(user, st.opps[i])
        THEN Reject(st, "delete", actor, id, 403, "Access denied. You can only delete your own opportunities.")
        ELSE Outcome(DsDeleteOpportunity(st.opps, id),
                     SelectSeq(st.apps, LAMBDA a : a.opportunityId # id), st.clock,
                     Response("delete", actor, id, 200, "Opportunity deleted successfully",
                              Undefined, <<>>))

DeleteOpportunityHandler(st, actor, params) ==
    LET user == GetUserById(actor)
        id == ParseInt(params, "id")
        i == IndexOfId(st.opps, id)
    IN  IF i = 0
        THEN Reject(st, "delete", actor, id, 404, "Opportunity not found")
        ELSE IF ~OwnerOrAdmin(user, st.opps[i])
        THEN Reject(st, "delete", actor, id, 403, "Access denied. You can only delete your own opportunities.")
        ELSE Outcome(DsDeleteOpportunity(st.opps, id), st.apps, st.clock,
                     Response("delete", actor, id, 200, "Opportunity deleted successfully",
                              Undefined, <<>>))

\* a status check that refuses closed opportunities only: the check that C3
\* must tell from the real one
NotClosed(opportunity) == opportunity.status # "closed"

\* opportunity.status !== 'open' is answered with 400
OpenForApplications(opportunity) == opportunity.status = "open"

\* applicationData of applyToOpportunity
ApplicationData(user, opportunityId, opportunity) ==
    [lpId |-> user.id, opportunityId |-> opportunityId,
     companyId |-> opportunity.companyId]

ApplyToOpportunityHandler(st, actor, params) ==
    LET user == GetUserById(actor)
        id == ParseInt(params, "id")
        i == IndexOfId(st.opps, id)
    IN  IF ~IsLP(user)
        THEN Reject(st, "apply", actor, id, 403, "Access denied. Only LP users can apply to opportunities.")
        ELSE IF i = 0
        THEN Reject(st, "apply", actor, id, 404, "Opportunity not found")
        ELSE IF ~OpenForApplications(st.opps[i])
        THEN Reject(st, "apply", actor, id, 400, "This opportunity is not open for applications")
        ELSE IF DsHasApplied(st.apps, user.id, id)
        THEN Reject(st, "apply", actor, id, 400, "You have already applied to this opportunity")
        ELSE LET apps == DsCreateApplication(st.apps,
                             ApplicationData(user, id, st.opps[i]), st.clock)
                 opps == DsSyncOpportunityApplicantCount(st.opps, apps, id)
             IN  Outcome(opps, apps, st.clock + 1,
                         Response("apply", actor, id, 201, "Application submitted successfully",
                                  apps[Len(apps)].id, <<>>))

\* a status filter with no default: the filter that C17 must tell from the
\* real one
StatusFilterNoDefault(query) == IF Has(query, "status") THEN query.status ELSE "all"

\* const { status = 'open', ... } = req.query
StatusFilter(query) == IF Has(query, "status") THEN query.status ELSE "open"

\* a text filter is applied when given, not empty and not 'All'
TextFilterGiven(query, f) ==
    Has(query, f) /\ query[f] # <<>> /\ query[f] # <<"A", "l", "l">>

MatchesExpertise(opp, expertise) ==
    /\ Has(opp, "requiredExpertise")
    /\ \E k \in 1..Len(opp.requiredExpertise) :
          Includes(ToLowerCase(opp.requiredExpertise[k]), ToLowerCase(expertise))

MatchesTimeCommitment(opp, timeCommitment) ==
    /\ Has(opp, "timeCommitment")
    /\ opp.timeCommitment # <<>>
    /\ Includes(ToLowerCase(opp.timeCommitment), ToLowerCase(timeCommitment))

MatchesSearch(opp, search) ==
    \/ Has(opp, "title") /\ opp.title # <<>>
         /\ Includes(ToLowerCase(opp.title), ToLowerCase(search))
    \/ Has(opp, "description") /\ opp.description # <<>>
         /\ Includes(ToLowerCase(opp.description), ToLowerCase(search))

\* the filters without the exclusion of the caller's own opportunities: the
\* selection that C16 must tell from the real one
SelectedWhoeverOwns(user, query, opp) ==
    /\ (StatusFilter(query) # "" /\ StatusFilter(query) # "all")
          => opp.status = StatusFilter(query)
    /\ TextFilterGiven(query, "expertise") => MatchesExpertise(opp, query.expertise)
    /\ TextFilterGiven(query, "timeCommitment")
          => MatchesTimeCommitment(opp, query.timeCommitment)
    /\ (Has(query, "search") /\ query.search # <<>>) => MatchesSearch(opp, query.search)

\* the filters of getOpportunities, in the order the handler applies them
Selected(user, query, opp) ==
    /\ IsCompany(user) => opp.companyId # user.id
    /\ (StatusFilter(query) # "" /\ StatusFilter(query) # "all")
          => opp.status = StatusFilter(query)
    /\ TextFilterGiven(query, "expertise") => MatchesExpertise(opp, query.expertise)
    /\ TextFilterGiven(query, "timeCommitment")
          => MatchesTimeCommitment(opp, query.timeCommitment)
    /\ (Has(query, "search") /\ query.search # <<>>) => MatchesSearch(opp, query.search)

\* array.sort((a, b) => new Date(b.createdAt) - new Date(a.createdAt)): stable
RECURSIVE InsertNewestFirst(_, _)
InsertNewestFirst(sorted, o) ==
    IF sorted = <<>> THEN <<o>>
    ELSE IF Head(sorted).createdAt >= o.createdAt
         THEN <<Head(sorted)>> \o InsertNewestFirst(Tail(sorted), o)
         ELSE <<o>> \o sorted

\* no sort at all, the array as the file holds it: the order that C15 must
\* tell from the real one
InFileOrder(arr) == arr

RECURSIVE SortNewestFirst(_)
SortNewestFirst(arr) ==
    IF arr = <<>> THEN <<>>
    ELSE InsertNewestFirst(SortNewestFirst(SubSeq(arr, 1, Len(arr) - 1)), arr[Len(arr)])

\* a count of all Applications, whatever opportunity they reference: the
\* count that C1 must tell from the real one
CountOfAllApplications(apps, opportunity) == Len(apps)

\* the count the listing loop computes for one listed opportunity
ActualCount(apps, opportunity) ==
    Len(DsGetApplicationsByOpportunity(apps, opportunity.id))

\* currentStoredCount !== actualCount
CountDiffers(apps, opportunity) ==
    OrZero(Num(opportunity, "applicantCount")) # ActualCount(apps, opportunity)

\* a recount of every stored opportunity, listed or not: the synchronisation
\* that C29 must tell from the real one
SyncEveryStored(opps, apps, listed) ==
    [i \in 1..Len(opps) |->
        Merge(opps[i],
              [applicantCount |-> Len(DsGetApplicationsByOpportunity(apps, opps[i].id))])]

\* the loop that syncs applicant counts: what it leaves in opportunities.json
RECURSIVE SyncListed(_, _, _)
SyncListed(opps, apps, listed) ==
    IF listed = <<>> THEN opps
    ELSE SyncListed(
            IF CountDiffers(apps, Head(listed))
            THEN DsUpdateOpportunity(opps, Head(listed).id,
                     [applicantCount |-> ActualCount(apps, Head(listed))])
            ELSE opps,
            apps, Tail(listed))

\* the listed objects with the count as stored: the answer that C18 must
\* tell from the real one
ListedAsStored(user, apps, listed) ==
    [k \in 1..Len(listed) |->
        IF IsLP(user)
        THEN Merge(listed[k], [hasApplied |-> DsHasApplied(apps, user.id, listed[k].id)])
        ELSE listed[k]]

\* the objects the listing returns: count corrected, hasApplied for an LP
Listed(user, apps, listed) ==
    [k \in 1..Len(listed) |->
        LET counted == Merge(listed[k], [applicantCount |-> ActualCount(apps, listed[k])])
        IN  IF IsLP(user)
            THEN Merge(counted, [hasApplied |-> DsHasApplied(apps, user.id, listed[k].id)])
            ELSE counted]

GetOpportunitiesHandler(st, actor, query) ==
    LET user == GetUserById(actor)
        listed == SortNewestFirst(
                      SelectSeq(st.opps, LAMBDA o : Selected(user, query, o)))
    IN  Outcome(SyncListed(st.opps, st.apps, listed), st.apps, st.clock,
                Response("list", actor, Undefined, 200, "", Undefined,
                         Listed(user, st.apps, listed)))

\* the name each route to updateApplicationStatus gives its path parameter:
\* router.patch('/:applicationId') under /api/applications and
\* router.patch('/applications/:applicationId') under /api/opportunities
RouteParamName(route) ==
    CASE route = "/api/applications/:applicationId" -> "applicationId"
      [] route = "/api/opportunities/applications/:applicationId" -> "applicationId"

\* req.params as Express fills it for a request over that route
RouteParams(route, digits) == [f \in {RouteParamName(route)} |-> digits]

ValidApplicationStatus(status) ==
    status # "" /\ status \in {"pending", "reviewed", "accepted", "rejected"}

UpdateApplicationStatusHandler(st, actor, params, status) ==
    LET user == GetUserById(actor)
        applicationId == ParseInt(params, "id")
        a == IndexOfId(st.apps, applicationId)
        o == IF a = 0 THEN 0 ELSE IndexOfId(st.opps, st.apps[a].opportunityId)
    IN  IF ~IsCompany(user) /\ ~IsAdmin(user)
        THEN Reject(st, "updateStatus", actor, applicationId, 403, "Access denied. Company role required.")
        ELSE IF ~ValidApplicationStatus(status)
        THEN Reject(st, "updateStatus", actor, applicationId, 400,
                    "Invalid status. Must be one of: pending, reviewed, accepted, rejected")
        ELSE IF a = 0
        THEN Reject(st, "updateStatus", actor, applicationId, 404, "Application not found")
        ELSE IF o = 0
        THEN Reject(st, "updateStatus", actor, applicationId, 404, "Associated opportunity not found")
        ELSE IF ~OwnerOrAdmin(user, st.opps[o])
        THEN Reject(st, "updateStatus", actor, applicationId, 403,
                    "Access denied. You can only update applications for your own opportunities.")
        ELSE LET apps == DsUpdateApplication(st.apps, applicationId, [status |-> status])
             IN  Outcome(st.opps, apps, st.clock,
                         Response("updateStatus", actor, applicationId, 200, "", Undefined,
                                  <<apps[a]>>))

GetOpportunityApplicationsHandler(st, actor, params) ==
    LET user == GetUserById(actor)
        opportunityId == ParseInt(params, "id")
        i == IndexOfId(st.opps, opportunityId)
    IN  IF ~IsCompany(user) /\ ~IsAdmin(user)
        THEN Reject(st, "listApplications", actor, opportunityId, 403,
                    "Access denied. Company role required.")
        ELSE IF i = 0
        THEN Reject(st, "listApplications", actor, opportunityId, 404, "Opportunity not found")
        ELSE IF ~OwnerOrAdmin(user, st.opps[i])
        THEN Reject(st, "listApplications", actor, opportunityId, 403,
                    "Access denied. You can only view applications for your own opportunities.")
        ELSE Outcome(st.opps, st.apps, st.clock,
                     Response("listApplications", actor, opportunityId, 200, "", Undefined,
                              SortNewestFirst(
                                  DsGetApplicationsByOpportunity(st.apps, opportunityId))))

----------------------------------------------------------------------------
(* companyController and adminController, behind requireRole *)

\* requireRole(...allowedRoles)
RoleAllowed(actor, allowedRoles) == GetUserById(actor).role \in allowedRoles

CompanyGetOpportunitiesHandler(st, actor) ==
    LET user == GetUserById(actor)
    IN  IF ~RoleAllowed(actor, {"Company"})
        THEN Reject(st, "companyList", actor, Undefined, 403, "Access denied. Required roles: Company")
        ELSE Outcome(st.opps, st.apps, st.clock,
                     Response("companyList", actor, Undefined, 200, "", Undefined,
                              SortNewestFirst(SelectSeq(st.opps,
                                  LAMBDA o : o.companyId = user.id))))

AdminGetOpportunitiesHandler(st, actor) ==
    IF ~RoleAllowed(actor, {"Admin"})
    THEN Reject(st, "adminList", actor, Undefined, 403, "Access denied. Required roles: Admin")
    ELSE Outcome(st.opps, st.apps, st.clock,
                 Response("adminList", actor, Undefined, 200, "", Undefined, st.opps))

\* !title || !companyName || !description
AdminFieldsMissing(body) ==
    \/ ~Has(body, "title") \/ body.title = <<>>
    \/ ~Has(body, "companyName") \/ body.companyName = <<>>
    \/ ~Has(body, "description") \/ body.description = <<>>

\* timeCommitment || 'Not specified'
TimeCommitmentOrDefault(body) ==
    IF Has(body, "timeCommitment") /\ body.timeCommitment # <<>>
    THEN body.timeCommitment
    ELSE <<"N">>

\* expertiseNeeded || []
ExpertiseNeededOrNone(body) ==
    IF Has(body, "expertiseNeeded") THEN body.expertiseNeeded ELSE <<>>

\* the object adminController.createOpportunity hands to the DataService:
\* behind requireRole('Admin') its companyId is null
AdminOpportunityData(body) ==
    [title |-> body.title, description |-> body.description,
     expertiseNeeded |-> ExpertiseNeededOrNone(body),
     timeCommitment |-> TimeCommitmentOrDefault(body), companyId |-> Undefined]

AdminCreateOpportunityHandler(st, actor, body) ==
    IF ~RoleAllowed(actor, {"Admin"})
    THEN Reject(st, "adminCreate", actor, Undefined, 403, "Access denied. Required roles: Admin")
    ELSE IF AdminFieldsMissing(body)
    THEN Reject(st, "adminCreate", actor, Undefined, 400,
                "Missing required fields: title, companyName, description")
    ELSE LET opps == DsCreateOpportunity(st.opps, AdminOpportunityData(body), st.clock)
             new == opps[Len(opps)]
         IN  Outcome(opps, st.apps, st.clock + 1,
                     Response("adminCreate", actor, new.id, 201,
                              "Opportunity created successfully", Undefined, <<new>>))

AdminUpdateOpportunityStatusHandler(st, actor, params, status) ==
    LET id == ParseInt(params, "id")
        i == IndexOfId(st.opps, id)
    IN  IF ~RoleAllowed(actor, {"Admin"})
        THEN Reject(st, "adminStatus", actor, id, 403, "Access denied. Required roles: Admin")
        ELSE IF status \notin {"open", "matched", "closed"}
        THEN Reject(st, "adminStatus", actor, id, 400,
                    "Invalid status. Must be open, matched, or closed")
        ELSE IF i = 0
        THEN Reject(st, "adminStatus", actor, id, 404, "Opportunity not found")
        ELSE LET opps == DsUpdateOpportunity(st.opps, id, [status |-> status])
             IN  Outcome(opps, st.apps, st.clock,
                         Response("adminStatus", actor, id, 200,
                                  "Opportunity status updated successfully", Undefined,
                                  <<opps[i]>>))

----------------------------------------------------------------------------
(* lpController: GET /api/lp/opportunities, behind requireRole('LP')       *)

\* user.expertise || user.expertiseAreas || []
UserExpertise(user) ==
    IF Has(user, "expertise") THEN user.expertise
    ELSE IF Has(user, "expertiseAreas") THEN user.expertiseAreas
    ELSE <<>>

\* opp.expertiseNeeded || []
ScoredExpertise(opp) ==
    IF Has(opp, "expertiseNeeded") THEN opp.expertiseNeeded ELSE <<>>

\* userSkill.toLowerCase().includes(skill.toLowerCase()) ||
\* skill.toLowerCase().includes(userSkill.toLowerCase())
SkillsMatch(userSkill, skill) ==
    \/ Includes(ToLowerCase(userSkill), ToLowerCase(skill))
    \/ Includes(ToLowerCase(skill), ToLowerCase(userSkill))

\* the number of scored entries that match some entry of the LP's expertise
MatchCount(scored, userExpertise) ==
    Len(SelectSeq(scored, LAMBDA skill :
            \E u \in 1..Len(userExpertise) : SkillsMatch(userExpertise[u], skill)))

\* Math.round((matchCount / length) * 100): to the nearest integer, halves up
RoundedPercent(matchCount, length) == (200 * matchCount + length) \div (2 * length)

\* the score of an opportunity with nothing to score
NeutralScore == 50

MatchScore(opp, user) ==
    LET scored == ScoredExpertise(opp)
    IN  IF Len(scored) > 0
        THEN RoundedPercent(MatchCount(scored, UserExpertise(user)), Len(scored))
        ELSE NeutralScore

\* array.sort((a, b) => b.matchScore - a.matchScore): stable
RECURSIVE InsertBestFirst(_, _)
InsertBestFirst(sorted, o) ==
    IF sorted = <<>> THEN <<o>>
    ELSE IF Head(sorted).matchScore >= o.matchScore
         THEN <<Head(sorted)>> \o InsertBestFirst(Tail(sorted), o)
         ELSE <<o>> \o sorted

RECURSIVE SortBestFirst(_)
SortBestFirst(arr) ==
    IF arr = <<>> THEN <<>>
    ELSE InsertBestFirst(SortBestFirst(SubSeq(arr, 1, Len(arr) - 1)), arr[Len(arr)])

LpGetOpportunitiesHandler(st, actor) ==
    LET user == GetUserById(actor)
        open == SelectSeq(st.opps, LAMBDA o : o.status = "open")
        scored == [k \in 1..Len(open) |->
                      LET matchScore == MatchScore(open[k], user)
                      IN  Merge(open[k], [matchScore |-> matchScore,
                                          isRelevant |-> matchScore > 30])]
    IN  IF ~RoleAllowed(actor, {"LP"})
        THEN Reject(st, "lpList", actor, Undefined, 403, "Access denied. Required roles: LP")
        ELSE Outcome(st.opps, st.apps, st.clock,
                     Response("lpList", actor, Undefined, 200, "", Undefined,
                              SortBestFirst(scored)))

----------------------------------------------------------------------------
(* Requests *)

\* path parameters naming an id, as decimal digits
IdParams == {<<d>> : d \in 1..MaxIdParam}

\* bodies of POST and PUT /api/opportunities
OppBodies ==
    { [title |-> <<"a">>, description |-> <<"d">>,
       requiredExpertise |-> << <<"m">> >>,
       timeCommitment |-> <<"h">>, compensation |-> <<"e">>],
      [title |-> <<" ", "a">>, description |-> <<"d">>,
       requiredExpertise |-> << <<" ">>, <<"m">> >>,
       timeCommitment |-> <<"h">>, compensation |-> <<"e">>],
      [title |-> <<" ">>, description |-> <<"d">>,
       requiredExpertise |-> << <<"m">> >>,
       timeCommitment |-> <<"h">>, compensation |-> <<"e">>],
      [title |-> <<"a">>, description |-> <<"d">>,
       requiredExpertise |-> <<>>,
       timeCommitment |-> <<"h">>, compensation |-> <<"e">>] }

\* bodies of PATCH /api/opportunities/:id
PatchBodies ==
    { [status |-> "filled"], [status |-> "open"], [status |-> "archived"],
      [companyId |-> 3], [applicantCount |-> 1] }

\* query strings of GET /api/opportunities
Queries == { << >>, [status |-> "all"], [status |-> "filled"] }

\* bodies of POST /api/admin/opportunities
AdminBodies ==
    { [title |-> <<"a">>, companyName |-> <<"c">>, description |-> <<"d">>],
      [title |-> <<"a">>, description |-> <<"d">>] }

\* status values sent to the status endpoints
ApplicationStatusInputs == {"accepted", "archived"}

OpportunityStatusInputs == {"matched", "filled"}

Routes ==
    {"/api/applications/:applicationId",
     "/api/opportunities/applications/:applicationId"}

----------------------------------------------------------------------------
(* The state machine *)

\* the places for requests in flight
Slots == 1..MaxInflight

\* a place with no request in it
Idle ==
    [op |-> "none", actor |-> 0, id |-> 0, updates |-> << >>, pc |-> "idle",
     found |-> << >>, listed |-> << >>, pending |-> << >>, k |-> 0,
     code |-> 0, val |-> 0, peers |-> {}]

Init ==
    /\ opportunities = <<>>
    /\ applications = <<>>
    /\ clock = 0
    /\ userStatus = [u \in UserIds |-> "active"]
    /\ inflight = [s \in Slots |-> Idle]

\* the collections as a handler finds them
Store == [opps |-> opportunities, apps |-> applications, clock |-> clock]

\* the handler's outcome becomes the state, within the bounds of the model
Commit(r) ==
    /\ Len(r.opps) <= MaxOpps
    /\ Len(r.apps) <= MaxApps
    /\ r.clock <= MaxClock
    /\ \A i \in 1..Len(r.opps) : Num(r.opps[i], "viewCount") <= MaxViews
    /\ opportunities' = r.opps
    /\ applications' = r.apps
    /\ clock' = r.clock
    /\ UNCHANGED <<userStatus, inflight>>

CreateOpportunity ==
    \E actor \in UserIds, body \in OppBodies :
        Commit(CreateOpportunityHandler(Store, actor, body))

GetOpportunities ==
    \E actor \in UserIds, query \in Queries :
        Commit(GetOpportunitiesHandler(Store, actor, query))

GetOpportunityById ==
    \E actor \in UserIds, digits \in IdParams :
        Commit(GetOpportunityByIdHandler(Store, actor, [id |-> digits]))

TrackOpportunityView ==
    \E actor \in UserIds, digits \in IdParams :
        Commit(TrackOpportunityViewHandler(Store, actor, [id |-> digits]))

UpdateOpportunity ==
    \E actor \in UserIds, digits \in IdParams, body \in OppBodies :
        Commit(UpdateOpportunityHandler(Store, actor, [id |-> digits], body))

PatchOpportunity ==
    \E actor \in UserIds, digits \in IdParams, updates \in PatchBodies :
        Commit(PatchOpportunityHandler(Store, actor, [id |-> digits], updates))

DeleteOpportunity ==
    \E actor \in UserIds, digits \in IdParams :
        Commit(DeleteOpportunityHandler(Store, actor, [id |-> digits]))

ApplyToOpportunity ==
    \E actor \in UserIds, digits \in IdParams :
        Commit(ApplyToOpportunityHandler(Store, actor, [id |-> digits]))

GetOpportunityApplications ==
    \E actor \in UserIds, digits \in IdParams :
        Commit(GetOpportunityApplicationsHandler(Store, actor, [id |-> digits]))

UpdateApplicationStatus ==
    \E actor \in UserIds, route \in Routes, digits \in IdParams,
       status \in ApplicationStatusInputs :
        Commit(UpdateApplicationStatusHandler(Store, actor, RouteParams(route, digits), status))

CompanyGetOpportunities ==
    \E actor \in UserIds : Commit(CompanyGetOpportunitiesHandler(Store, actor))

AdminGetOpportunities ==
    \E actor \in UserIds : Commit(AdminGetOpportunitiesHandler(Store, actor))

AdminCreateOpportunity ==
    \E actor \in UserIds, body \in AdminBodies :
        Commit(AdminCreateOpportunityHandler(Store, actor, body))

AdminUpdateOpportunityStatus ==
    \E actor \in UserIds, digits \in IdParams, status \in OpportunityStatusInputs :
        Commit(AdminUpdateOpportunityStatusHandler(Store, actor, [id |-> digits], status))

Next ==
    \/ CreateOpportunity
    \/ GetOpportunities
    \/ GetOpportunityById
    \/ TrackOpportunityView
    \/ UpdateOpportunity
    \/ PatchOpportunity
    \/ DeleteOpportunity
    \/ ApplyToOpportunity
    \/ GetOpportunityApplications
    \/ UpdateApplicationStatus
    \/ CompanyGetOpportunities
    \/ AdminGetOpportunities
    \/ AdminCreateOpportunity
    \/ AdminUpdateOpportunityStatus

Spec == Init /\ [][Next]_vars

----------------------------------------------------------------------------
(* Vocabulary of the properties *)

\* the collections a handler leaves, for the next request
After(r) == [opps |-> r.opps, apps |-> r.apps, clock |-> r.clock]

\* the Application records whose opportunityId is id
Referencing(apps, id) == {k \in 1..Len(apps) : apps[k].opportunityId = id}

\* the stored applicantCount, absent read as 0
StoredCount(opp) == OrZero(Num(opp, "applicantCount"))

InSync(opps, apps, i) == StoredCount(opps[i]) = Cardinality(Referencing(apps, opps[i].id))

\* lp already has an Application for opportunity id
Applied(apps, lp, id) ==
    \E k \in 1..Len(apps) : apps[k].lpId = lp /\ apps[k].opportunityId = id

Role(actor) == GetUserById(actor).role

IdOf(digits) == DigitsToInt(digits)

\* the stored opportunity a path parameter names, 0 when there is none
Target(opps, digits) == IndexOfId(opps, IdOf(digits))

Unchanged(st, r) == r.opps = st.opps /\ r.apps = st.apps

----------------------------------------------------------------------------
(* Applicant counts after a listing *)

\* the stored record a returned opportunity stands for
StoredIndex(opps, returned) == IndexOfId(opps, returned.id)

----------------------------------------------------------------------------
(* Applying *)

LPs == {a \in UserIds : Role(a) = "LP"}

\* C2 as the specification states it: once an LP has an Application for an
\* opportunity, every later apply by that LP to that opportunity is answered
\* 400 "already applied" and adds no Application.
C2_LaterApplyIsDuplicateError ==
    \A lp \in LPs, digits \in IdParams :
        Applied(applications, lp, IdOf(digits)) =>
            LET r == ApplyToOpportunityHandler(Store, lp, [id |-> digits])
            IN  /\ r.res.code = 400
                /\ r.res.msg = "You have already applied to this opportunity"
                /\ r.apps = applications

\* C2, amended: once an LP has an Application for an opportunity, every later
\* apply by that LP to that opportunity adds no Application and changes
\* nothing; it is answered 400 "already applied" while the opportunity exists
\* and is open, 400 "not open" when it exists with another status, and 404
\* when it has been deleted.
C2_LaterApplyAddsNothing ==
    \A lp \in LPs, digits \in IdParams :
        Applied(applications, lp, IdOf(digits)) =>
            LET r == ApplyToOpportunityHandler(Store, lp, [id |-> digits])
                t == Target(opportunities, digits)
            IN  /\ Unchanged(Store, r)
                /\ t = 0 => r.res.code = 404
                /\ (t # 0 /\ opportunities[t].status # "open") =>
                      /\ r.res.code = 400
                      /\ r.res.msg = "This opportunity is not open for applications"
                /\ (t # 0 /\ opportunities[t].status = "open") =>
                      /\ r.res.code = 400
                      /\ r.res.msg = "You have already applied to this opportunity"

\* an LP has applied to an opportunity that is still open, and applies again
C2_Witness ==
    \E lp \in LPs, digits \in IdParams :
        /\ Applied(applications, lp, IdOf(digits))
        /\ Target(opportunities, digits) # 0
        /\ opportunities[Target(opportunities, digits)].status = "open"
        /\ ApplyToOpportunityHandler(Store, lp, [id |-> digits]).res.msg
              = "You have already applied to this opportunity"

\* C3: an apply to an opportunity whose status is not "open" is answered 400
\* and creates no Application (nothing in the store changes).
C3_ApplyToNonOpenRejected ==
    \A lp \in LPs, digits \in IdParams :
        LET t == Target(opportunities, digits)
            r == ApplyToOpportunityHandler(Store, lp, [id |-> digits])
        IN  (t # 0 /\ opportunities[t].status # "open") =>
                /\ r.res.code = 400
                /\ Unchanged(Store, r)

\* an LP who has not applied faces an opportunity that is no longer open
C3_Witness ==
    \E lp \in LPs, digits \in IdParams :
        /\ Target(opportunities, digits) # 0
        /\ opportunities[Target(opportunities, digits)].status \in {"filled", "matched"}
        /\ ~Applied(applications, lp, IdOf(digits))
        /\ ApplyToOpportunityHandler(Store, lp, [id |-> digits]).res.code = 400

----------------------------------------------------------------------------
(* Ownership *)

\* an LP, or a Company that does not own the opportunity
Outsider(actor, opp) ==
    \/ Role(actor) = "LP"
    \/ Role(actor) = "Company" /\ opp.companyId # actor

\* C4: update, patch and delete of an opportunity by a Company that does not
\* own it, or by an LP, are answered 403 and leave the store unchanged.
C4_OutsiderGets403 ==
    \A actor \in UserIds, digits \in IdParams :
        LET t == Target(opportunities, digits)
            p == [id |-> digits]
        IN  (t # 0 /\ Outsider(actor, opportunities[t])) =>
                /\ \A body \in OppBodies :
                      LET r == UpdateOpportunityHandler(Store, actor, p, body)
                      IN  r.res.code = 403 /\ Unchanged(Store, r)
                /\ \A updates \in PatchBodies :
                      LET r == PatchOpportunityHandler(Store, actor, p, updates)
                      IN  r.res.code = 403 /\ Unchanged(Store, r)
                /\ LET r == DeleteOpportunityHandler(Store, actor, p)
                   IN  r.res.code = 403 /\ Unchanged(Store, r)

\* an opportunity owned by Company 1 with an Application, which Company 3 and
\* the LPs then try to delete
C4_Witness ==
    \E i \in 1..Len(opportunities) :
        /\ opportunities[i].companyId = 1
        /\ Referencing(applications, opportunities[i].id) # {}
        /\ i = IndexOfId(opportunities, opportunities[i].id)
        /\ opportunities[i].id <= MaxIdParam
        /\ DeleteOpportunityHandler(Store, 3, [id |-> <<opportunities[i].id>>]).res.code = 403

\* the bodies that pass the field validation of create and update
ValidBodies == {body \in OppBodies : ValidateFields(body) = ""}

Admins == {a \in UserIds : Role(a) = "Admin"}

\* C5: update (PUT), patch and delete of any existing opportunity by an Admin
\* pass the ownership check: none is answered 403, whoever owns it.
C5_AdminPassesOwnershipCheck ==
    \A admin \in Admins, digits \in IdParams :
        LET p == [id |-> digits]
        IN  Target(opportunities, digits) # 0 =>
                /\ \A body \in ValidBodies :
                      UpdateOpportunityHandler(Store, admin, p, body).res.code = 200
                /\ \A updates \in PatchBodies :
                      PatchOpportunityHandler(Store, admin, p, updates).res.code # 403
                /\ DeleteOpportunityHandler(Store, admin, p).res.code = 200

----------------------------------------------------------------------------
(* Application status *)

\* may decide on Application a: the Company that owns its opportunity, or an Admin
MayDecide(actor, a) ==
    LET o == IndexOfId(opportunities, a.opportunityId)
    IN  /\ o # 0
        /\ \/ Role(actor) = "Admin"
           \/ Role(actor) = "Company" /\ opportunities[o].companyId = actor

\* C6: a status update of an existing Application to a valid status, made by
\* the owning Company or an Admin over either route, /api/applications/:id or
\* /api/opportunities/applications/:id, is answered 200 and the stored
\* Application then has that status.
C6_UpdateStatusPersistsOnBothRoutes ==
    \A actor \in UserIds, route \in Routes, status \in ApplicationStatusInputs :
        \A k \in 1..Len(applications) :
            (MayDecide(actor, applications[k]) /\ ValidApplicationStatus(status)) =>
                LET r == UpdateApplicationStatusHandler(Store, actor,
                             RouteParams(route, <<applications[k].id>>), status)
                IN  /\ r.res.code = 200
                    /\ r.apps[IndexOfId(r.apps, applications[k].id)].status = status

----------------------------------------------------------------------------
(* View counts *)

\* the number of consecutive view requests the view property follows
MaxCalls == 2

\* the outcome of trackView called once for each caller in turn
RECURSIVE TrackViews(_, _, _)
TrackViews(st, callers, params) ==
    IF callers = <<>> THEN st
    ELSE TrackViews(After(TrackOpportunityViewHandler(st, Head(callers), params)),
                    Tail(callers), params)

\* C7: n calls of trackView on an existing opportunity raise its stored
\* viewCount by exactly n, whoever the callers are and whether or not they
\* repeat; each call returns the new viewCount; getById changes nothing.
C7_TrackViewCountsEveryCall ==
    \A digits \in IdParams :
        LET t == Target(opportunities, digits)
            p == [id |-> digits]
        IN  t # 0 =>
              /\ \A n \in 1..MaxCalls : \A callers \in [1..n -> UserIds] :
                    LET before == TrackViews(Store, SubSeq(callers, 1, n - 1), p)
                        last == TrackOpportunityViewHandler(before, callers[n], p)
                        v == OrZero(Num(opportunities[t], "viewCount"))
                    IN  /\ last.res.code = 200
                        /\ last.res.val = v + n
                        /\ last.opps[t].viewCount = v + n
                        /\ last.opps = [opportunities EXCEPT ![t] =
                                           Merge(@, [viewCount |-> v + n])]
                        /\ last.apps = applications
              /\ \A actor \in UserIds :
                    LET r == GetOpportunityByIdHandler(Store, actor, p)
                    IN  r.res.code = 200 /\ Unchanged(Store, r)

\* an opportunity that has been viewed once and is viewed again by the same user
C7_Witness ==
    \E digits \in IdParams :
        /\ Target(opportunities, digits) # 0
        /\ opportunities[Target(opportunities, digits)].viewCount = 1
        /\ TrackOpportunityViewHandler(Store, 2, [id |-> digits]).res.val = 2
        /\ TrackViews(Store, <<2, 2>>, [id |-> digits]).opps[Target(opportunities, digits)].viewCount = 3

----------------------------------------------------------------------------
(* Creation *)

\* C8: a create by a Company that succeeds (201) appends one opportunity with
\* status "open", viewCount 0, applicantCount 0 and companyId the caller's id,
\* and a Company's valid body does succeed; a create by anyone else is
\* answered 403 and stores nothing.
C8_CreateDefaultsAndCompanyOnly ==
    \A actor \in UserIds, body \in OppBodies :
        LET r == CreateOpportunityHandler(Store, actor, body)
            new == r.opps[Len(r.opps)]
        IN  /\ Role(actor) # "Company" => r.res.code = 403 /\ Unchanged(Store, r)
            /\ (Role(actor) = "Company" /\ body \in ValidBodies) => r.res.code = 201
            /\ r.res.code = 201 =>
                  /\ Role(actor) = "Company"
                  /\ Len(r.opps) = Len(opportunities) + 1
                  /\ SubSeq(r.opps, 1, Len(opportunities)) = opportunities
                  /\ r.apps = applications
                  /\ new.status = "open"
                  /\ new.viewCount = 0
                  /\ new.applicantCount = 0
                  /\ new.companyId = actor
                  /\ r.res.list = <<new>>

\* Company 3 has created an opportunity, and there is room for another
C8_Witness ==
    /\ \E i \in 1..Len(opportunities) :
          /\ opportunities[i].companyId = 3
          /\ opportunities[i].status = "open"
          /\ Has(opportunities[i], "viewCount")
    /\ \E body \in OppBodies : CreateOpportunityHandler(Store, 1, body).res.code = 201

\* C9: directly after an apply that succeeded (201), the stored applicantCount
\* of the target opportunity equals the number of Applications that reference
\* it, and the new Application is the one added, with status "pending".
C9_ApplySyncsCountAndPends ==
    \A lp \in UserIds, digits \in IdParams :
        LET r == ApplyToOpportunityHandler(Store, lp, [id |-> digits])
            t == Target(opportunities, digits)
            new == r.apps[Len(r.apps)]
        IN  r.res.code = 201 =>
              /\ t # 0
              /\ r.opps[t].id = IdOf(digits)
              /\ r.opps[t].applicantCount
                    = Cardinality(Referencing(r.apps, IdOf(digits)))
              /\ Len(r.apps) = Len(applications) + 1
              /\ SubSeq(r.apps, 1, Len(applications)) = applications
              /\ new.status = "pending"
              /\ new.lpId = lp
              /\ new.opportunityId = IdOf(digits)
              /\ r.res.val = new.id

\* an LP applies with success to an opportunity that already has an
\* Application and a stored count that is wrong
C9_Witness ==
    \E lp \in LPs, digits \in IdParams :
        /\ Target(opportunities, digits) # 0
        /\ Referencing(applications, IdOf(digits)) # {}
        /\ ~InSync(opportunities, applications, Target(opportunities, digits))
        /\ ApplyToOpportunityHandler(Store, lp, [id |-> digits]).res.code = 201

\* the companyId of the stored opportunity with that id, Undefined when gone
CompanyIdOf(opps, id) ==
    IF IndexOfId(opps, id) = 0 THEN Undefined
    ELSE Num(opps[IndexOfId(opps, id)], "companyId")

\* every opportunity still stored after r keeps the companyId it had
KeepsCompanyId(r) ==
    \A i \in 1..Len(opportunities) :
        IndexOfId(r.opps, opportunities[i].id) # 0 =>
            CompanyIdOf(r.opps, opportunities[i].id)
                = CompanyIdOf(opportunities, opportunities[i].id)

\* C10: no operation changes the companyId of a stored opportunity: not
\* update, patch, trackView, apply nor a listing, whoever calls it.
C10_CompanyIdNeverChanges ==
    \A actor \in UserIds, digits \in IdParams :
        LET p == [id |-> digits]
        IN  /\ \A body \in OppBodies :
                  KeepsCompanyId(UpdateOpportunityHandler(Store, actor, p, body))
            /\ \A updates \in PatchBodies :
                  KeepsCompanyId(PatchOpportunityHandler(Store, actor, p, updates))
            /\ KeepsCompanyId(TrackOpportunityViewHandler(Store, actor, p))
            /\ KeepsCompanyId(ApplyToOpportunityHandler(Store, actor, p))
            /\ \A query \in Queries :
                  KeepsCompanyId(GetOpportunitiesHandler(Store, actor, query))

----------------------------------------------------------------------------
(* Stored fields *)

AllowedStatuses == {"open", "closed", "filled"}

\* patch bodies whose status is outside the allowed set: an unknown word and
\* the empty status
BadStatusBodies == {[status |-> "archived"], [status |-> ""]}

\* C11: every stored opportunity has a status among open, closed, filled; a
\* patch by a permitted caller whose body carries a status outside that set,
\* the empty status included, is answered 400 and changes nothing.
C11_StatusAlwaysAllowed ==
    /\ \A i \in 1..Len(opportunities) : opportunities[i].status \in AllowedStatuses
    /\ \A actor \in UserIds, digits \in IdParams, updates \in BadStatusBodies :
          LET t == Target(opportunities, digits)
              r == PatchOpportunityHandler(Store, actor, [id |-> digits], updates)
          IN  (t # 0 /\ ~Outsider(actor, opportunities[t])) =>
                  r.res.code = 400 /\ Unchanged(Store, r)

\* a body that passes every check, and the same body with another expertise list
GoodBody ==
    [title |-> <<"a">>, description |-> <<"d">>,
     requiredExpertise |-> << <<"m">> >>,
     timeCommitment |-> <<"h">>, compensation |-> <<"e">>]

WithExpertise(list) == Merge(GoodBody, [requiredExpertise |-> list])

\* expertise lists: empty, only blank entries, one good entry, blank and good
ExpertiseLists ==
    { << >>, << <<>> >>, << <<" ">> >>, << <<" ">>, <<" ", " ">> >>,
      << <<"m">> >>, << <<" ">>, <<"m">> >> }

\* the list has an entry that is not empty after trimming
HasRealEntry(list) == \E k \in 1..Len(list) : Trim(list[k]) # <<>>

\* a stored list is non-empty and has non-empty strings only
WellFormedExpertise(list) ==
    list # <<>> /\ \A k \in 1..Len(list) : list[k] # <<>> /\ Trim(list[k]) # <<>>

Companies == {a \in UserIds : Role(a) = "Company"}

\* C12: an opportunity persisted by create or update has a non-empty
\* requiredExpertise of non-empty strings; a request whose requiredExpertise
\* is empty or has no entry that is non-empty after trimming is answered 400
\* and persists nothing.
C12_ExpertiseNonEmptyOrRejected ==
    \A actor \in Companies, list \in ExpertiseLists :
        /\ LET r == CreateOpportunityHandler(Store, actor, WithExpertise(list))
           IN  /\ r.res.code = 201 =>
                      WellFormedExpertise(r.opps[Len(r.opps)].requiredExpertise)
               /\ ~HasRealEntry(list) => r.res.code = 400 /\ Unchanged(Store, r)
        /\ \A digits \in IdParams :
              LET t == Target(opportunities, digits)
                  r == UpdateOpportunityHandler(Store, actor, [id |-> digits],
                                                WithExpertise(list))
              IN  (t # 0 /\ opportunities[t].companyId = actor) =>
                     /\ r.res.code = 200 =>
                            WellFormedExpertise(r.opps[t].requiredExpertise)
                     /\ ~HasRealEntry(list) => r.res.code = 400 /\ Unchanged(Store, r)

----------------------------------------------------------------------------
(* Frame of update and delete *)

FiveFields == {"title", "description", "requiredExpertise", "timeCommitment", "compensation"}

\* fields a PUT body may carry beside the five it is meant to carry
ExtraFields == [id |-> 2, companyId |-> 3, status |-> "closed",
                viewCount |-> 1, applicantCount |-> 2, createdAt |-> 3]

\* PUT bodies: the plain one, one with a new title, and both with the extras
PutBodies ==
    LET retitled == Merge(GoodBody, [title |-> <<"b", " ">>])
    IN  {GoodBody, retitled, Merge(GoodBody, ExtraFields), Merge(retitled, ExtraFields)}

\* C13: an update (PUT) that succeeds sets title, description,
\* requiredExpertise, timeCommitment and compensation of the target to the
\* cleaned values of the body and changes nothing else: every other field of
\* the target (companyId, status, viewCount, applicantCount among them) keeps
\* its value whatever else the body carries, and every other opportunity and
\* every Application is unchanged.
C13_UpdateTouchesFiveFieldsOnly ==
    \A actor \in UserIds, digits \in IdParams, body \in PutBodies :
        LET t == Target(opportunities, digits)
            r == UpdateOpportunityHandler(Store, actor, [id |-> digits], body)
        IN  r.res.code = 200 =>
              /\ t # 0
              /\ r.apps = applications
              /\ Len(r.opps) = Len(opportunities)
              /\ \A j \in 1..Len(opportunities) : j # t => r.opps[j] = opportunities[j]
              /\ DOMAIN r.opps[t] = DOMAIN opportunities[t] \cup FiveFields
              /\ \A f \in DOMAIN opportunities[t] \ FiveFields :
                    r.opps[t][f] = opportunities[t][f]
              /\ r.opps[t].title = Trim(body.title)
              /\ r.opps[t].description = Trim(body.description)
              /\ r.opps[t].timeCommitment = Trim(body.timeCommitment)
              /\ r.opps[t].compensation = Trim(body.compensation)
              /\ r.opps[t].requiredExpertise = <<body.requiredExpertise[1]>>

\* Company 1 owns a filled opportunity with an applicant, a second opportunity
\* exists, and a PUT that carries the extra fields retitles the first
C13_Witness ==
    \E digits \in IdParams :
        LET t == Target(opportunities, digits)
            r == UpdateOpportunityHandler(Store, 1, [id |-> digits],
                                          Merge(GoodBody, ExtraFields @@ [title |-> <<"b", " ">>]))
        IN  /\ t # 0
            /\ Len(opportunities) = 2
            /\ opportunities[t].status = "filled"
            /\ StoredCount(opportunities[t]) = 1
            /\ Referencing(applications, opportunities[t].id) # {}
            /\ r.res.code = 200
            /\ r.opps[t].title = <<"b">>
            /\ r.opps # opportunities

\* the sequence without its t-th element
RemoveAt(seq, t) == SubSeq(seq, 1, t - 1) \o SubSeq(seq, t + 1, Len(seq))

----------------------------------------------------------------------------
(* Listing the Applications of an opportunity *)

\* list holds each element of the Applications at positions ks once, newest first
ExactlyNewestFirst(list, apps, ks) ==
    /\ Len(list) = Cardinality(ks)
    /\ {list[n] : n \in 1..Len(list)} = {apps[k] : k \in ks}
    /\ \A m, n \in 1..Len(list) : m < n => list[m].createdAt >= list[n].createdAt

----------------------------------------------------------------------------
(* The discovery listing *)

\* filter sets: those of the requests above, and some with text filters
FilterSets ==
    Queries \cup
    { [status |-> "all", expertise |-> <<"M">>],
      [status |-> "all", search |-> <<"A">>],
      [timeCommitment |-> <<"h">>],
      [status |-> "all", expertise |-> <<"x">>] }

\* the ids a listing returned, in order
ListedIds(r) == [n \in 1..Len(r.res.list) |-> r.res.list[n].id]

IdSet(ids) == {ids[n] : n \in 1..Len(ids)}

\* the ids of the stored opportunities that actor owns
OwnedBy(actor) ==
    {opportunities[i].id : i \in {j \in 1..Len(opportunities) :
                                     opportunities[j].companyId = actor}}

\* C16: the discovery listing never returns to a Company an opportunity whose
\* companyId is the caller's id, whatever the filters; ownership excludes
\* nothing for an LP or an Admin: under the same filters they are returned the
\* same opportunities as each other, a Company is returned those minus its
\* own, and with status "all" and no other filter an LP or Admin is returned
\* every stored opportunity.
C16_CompanyNeverSeesOwn ==
    \A actor \in UserIds, query \in FilterSets :
        LET r == GetOpportunitiesHandler(Store, actor, query)
            admin == GetOpportunitiesHandler(Store, 5, query)
        IN  IF Role(actor) = "Company"
            THEN /\ \A n \in 1..Len(r.res.list) : r.res.list[n].companyId # actor
                 /\ IdSet(ListedIds(r)) = IdSet(ListedIds(admin)) \ OwnedBy(actor)
            ELSE /\ ListedIds(r) = ListedIds(admin)
                 /\ query = [status |-> "all"] =>
                        IdSet(ListedIds(r)) = {opportunities[i].id : i \in 1..Len(opportunities)}

\* Company 1 and Company 3 each own an open opportunity; Company 1 browsing
\* is returned the one of Company 3 only
C16_Witness ==
    /\ Len(opportunities) = 2
    /\ opportunities[1].companyId = 1 /\ opportunities[1].status = "open"
    /\ opportunities[2].companyId = 3 /\ opportunities[2].status = "open"
    /\ ListedIds(GetOpportunitiesHandler(Store, 1, << >>)) = <<opportunities[2].id>>
    /\ Len(GetOpportunitiesHandler(Store, 2, << >>).res.list) = 2

\* filter sets that supply no status
NoStatusFilterSets == {query \in FilterSets : ~Has(query, "status")}

\* C17 as the specification states it: a listing request that supplies no
\* status returns what the same request with status "all" returns.
C17_NoStatusListsLikeAll ==
    \A actor \in UserIds, query \in NoStatusFilterSets :
        GetOpportunitiesHandler(Store, actor, query).res.list
            = GetOpportunitiesHandler(Store, actor, Merge(query, [status |-> "all"])).res.list

\* C17, amended: the status filter is skipped only when the request supplies
\* status "all"; a request that supplies no status is answered as the same
\* request with status "open" is, with opportunities of status "open" only,
\* and a request with status "all" is returned opportunities of every status.
C17_NoStatusListsLikeOpen ==
    \A actor \in UserIds, query \in NoStatusFilterSets :
        LET none == GetOpportunitiesHandler(Store, actor, query)
            open == GetOpportunitiesHandler(Store, actor, Merge(query, [status |-> "open"]))
            all == GetOpportunitiesHandler(Store, actor, Merge(query, [status |-> "all"]))
        IN  /\ none.res.list = open.res.list
            /\ none.opps = open.opps
            /\ \A n \in 1..Len(none.res.list) : none.res.list[n].status = "open"
            /\ IdSet(ListedIds(none))
                  = {all.res.list[n].id : n \in {m \in 1..Len(all.res.list) :
                                                    all.res.list[m].status = "open"}}
            /\ (query = << >> /\ Role(actor) # "Company") =>
                  IdSet(ListedIds(all)) = {opportunities[i].id : i \in 1..Len(opportunities)}

\* an open and a filled opportunity are stored; an LP who sends no status is
\* returned the open one, and both with status "all"
C17_Witness ==
    /\ \E i, j \in 1..Len(opportunities) :
          opportunities[i].status = "open" /\ opportunities[j].status = "filled"
    /\ Len(GetOpportunitiesHandler(Store, 2, << >>).res.list) = 1
    /\ Len(GetOpportunitiesHandler(Store, 2, [status |-> "all"]).res.list) = 2

\* what the determinism property compares of a returned opportunity
Shown(o) ==
    [id |-> o.id,
     applicantCount |-> Num(o, "applicantCount"),
     hasApplied |-> IF Has(o, "hasApplied") THEN o.hasApplied ELSE FALSE,
     carriesHasApplied |-> Has(o, "hasApplied")]

ShownList(r) == [n \in 1..Len(r.res.list) |-> Shown(r.res.list[n])]

\* C18: a discovery listing repeated by the same caller with the same filters,
\* with no other request in between, returns the same opportunities in the
\* same order with the same applicantCount and hasApplied values as the first
\* did, also when the first one wrote count corrections to the store.
C18_RepeatedListingSameAnswer ==
    \A actor \in UserIds, query \in FilterSets :
        LET first == GetOpportunitiesHandler(Store, actor, query)
            second == GetOpportunitiesHandler(After(first), actor, query)
        IN  /\ first.res.code = 200 /\ second.res.code = 200
            /\ ShownList(second) = ShownList(first)

\* the first listing by an LP who has applied rewrites a stored count; the
\* repeated listing runs on the rewritten store
C18_Witness ==
    LET first == GetOpportunitiesHandler(Store, 2, << >>)
    IN  /\ first.opps # opportunities
        /\ \E n \in 1..Len(first.res.list) :
              /\ first.res.list[n].hasApplied
              /\ first.res.list[n].applicantCount
                    # StoredCount(opportunities[IndexOfId(opportunities, first.res.list[n].id)])

----------------------------------------------------------------------------
(* Storage faults.  readFile answers [] when the read or the parse fails,   *)
(* writeFile answers false when the write fails, and no caller looks at     *)
(* that answer.  A fault here lasts for one request: while the request      *)
(* runs, every read of the faulty file fails, or every write to it does.    *)

\* readFile: the content, or [] on error
ReadFile(content, failed) == IF failed THEN << >> ELSE content

\* writeFile: what the file holds afterwards
WriteFile(onDisk, data, failed) == IF failed THEN onDisk ELSE data

NoFault == [readOpps |-> FALSE, readApps |-> FALSE, writeOpps |-> FALSE, writeApps |-> FALSE]

\* no fault, or one file failing in one direction
Faults ==
    { NoFault,
      [NoFault EXCEPT !.readOpps = TRUE], [NoFault EXCEPT !.readApps = TRUE],
      [NoFault EXCEPT !.writeOpps = TRUE], [NoFault EXCEPT !.writeApps = TRUE] }

\* the collections as the DataService reads them under fault f
Seen(st, f) ==
    [opps |-> ReadFile(st.opps, f.readOpps),
     apps |-> ReadFile(st.apps, f.readApps),
     clock |-> st.clock]

\* what is stored after a handler that saw Seen(st, f) has come to outcome r:
\* each collection it changed is written, each other one is left alone
Settle(st, f, r) ==
    Outcome(IF r.opps # Seen(st, f).opps
            THEN WriteFile(st.opps, r.opps, f.writeOpps) ELSE st.opps,
            IF r.apps # Seen(st, f).apps
            THEN WriteFile(st.apps, r.apps, f.writeApps) ELSE st.apps,
            r.clock, r.res)

CreateOpportunityIO(st, f, actor, body) ==
    Settle(st, f, CreateOpportunityHandler(Seen(st, f), actor, body))

UpdateOpportunityIO(st, f, actor, params, body) ==
    Settle(st, f, UpdateOpportunityHandler(Seen(st, f), actor, params, body))

PatchOpportunityIO(st, f, actor, params, updates) ==
    Settle(st, f, PatchOpportunityHandler(Seen(st, f), actor, params, updates))

DeleteOpportunityIO(st, f, actor, params) ==
    Settle(st, f, DeleteOpportunityHandler(Seen(st, f), actor, params))

GetOpportunitiesIO(st, f, actor, query) ==
    Settle(st, f, GetOpportunitiesHandler(Seen(st, f), actor, query))

\* applyToOpportunity reads applications.json again after writing it: the
\* count it then stores is the count of what the file holds
ApplyToOpportunityIO(st, f, actor, params) ==
    LET seen == Seen(st, f)
        r == ApplyToOpportunityHandler(seen, actor, params)
        id == ParseInt(params, "id")
        apps == WriteFile(st.apps, r.apps, f.writeApps)
        counted == DsSyncOpportunityApplicantCount(seen.opps,
                       ReadFile(apps, f.readApps), id)
    IN  IF r.res.code # 201 THEN Settle(st, f, r)
        ELSE Outcome(IF counted # seen.opps
                     THEN WriteFile(st.opps, counted, f.writeOpps) ELSE st.opps,
                     apps, r.clock, r.res)

\* requests of the runs with storage faults
Retitled == Merge(GoodBody, [title |-> <<"b">>])

PatchBodiesIO == {[status |-> "filled"], [applicantCount |-> 1]}

QueriesIO == { << >>, [status |-> "all"] }

CreateOpportunityFaulty ==
    \E actor \in UserIds, f \in Faults :
        Commit(CreateOpportunityIO(Store, f, actor, GoodBody))

UpdateOpportunityFaulty ==
    \E actor \in UserIds, digits \in IdParams, f \in Faults :
        Commit(UpdateOpportunityIO(Store, f, actor, [id |-> digits], Retitled))

PatchOpportunityFaulty ==
    \E actor \in UserIds, digits \in IdParams, updates \in PatchBodiesIO, f \in Faults :
        Commit(PatchOpportunityIO(Store, f, actor, [id |-> digits], updates))

DeleteOpportunityFaulty ==
    \E actor \in UserIds, digits \in IdParams, f \in Faults :
        Commit(DeleteOpportunityIO(Store, f, actor, [id |-> digits]))

ApplyToOpportunityFaulty ==
    \E actor \in UserIds, digits \in IdParams, f \in Faults :
        Commit(ApplyToOpportunityIO(Store, f, actor, [id |-> digits]))

GetOpportunitiesFaulty ==
    \E actor \in UserIds, query \in QueriesIO, f \in Faults :
        Commit(GetOpportunitiesIO(Store, f, actor, query))

NextIO ==
    \/ CreateOpportunityFaulty
    \/ UpdateOpportunityFaulty
    \/ PatchOpportunityFaulty
    \/ DeleteOpportunityFaulty
    \/ ApplyToOpportunityFaulty
    \/ GetOpportunitiesFaulty

SpecIO == Init /\ [][NextIO]_vars

\* the faults the count synchronisation of a listing can meet: the read of
\* the Applications, the write of the corrected count
SyncFaults ==
    {[NoFault EXCEPT !.readApps = TRUE], [NoFault EXCEPT !.writeOpps = TRUE]}

\* C19: when the read of the Applications or the write of the corrected
\* count fails during a listing, the listing is still answered 200, each
\* returned opportunity carries the applicantCount that was stored, and the
\* stored counts are what they were.
C19_FailedSyncKeepsStoredCount ==
    \A actor \in UserIds, query \in QueriesIO, f \in SyncFaults :
        LET r == GetOpportunitiesIO(Store, f, actor, query)
        IN  /\ r.res.code = 200
            /\ r.opps = opportunities
            /\ r.apps = applications
            /\ \A n \in 1..Len(r.res.list) :
                  r.res.list[n].applicantCount
                      = StoredCount(opportunities[StoredIndex(opportunities, r.res.list[n])])

\* the faults on the file an operation mutates: opportunities.json for
\* create, update, patch and delete, applications.json for apply
OppFaults ==
    {[NoFault EXCEPT !.readOpps = TRUE], [NoFault EXCEPT !.writeOpps = TRUE]}

AppFaults ==
    {[NoFault EXCEPT !.readApps = TRUE], [NoFault EXCEPT !.writeApps = TRUE]}

\* the request failed as a whole: an error answer, and the store as it was
FailedWhole(r) == r.res.code >= 400 /\ Unchanged(Store, r)

\* C20: when the read or the write of the mutated file fails during create,
\* update, patch, delete or apply, the caller is answered an error, never a
\* 2xx, and the stored records are what they were.
C20_StorageFaultFailsWhole ==
    /\ \A actor \in UserIds, f \in OppFaults :
          FailedWhole(CreateOpportunityIO(Store, f, actor, GoodBody))
    /\ \A actor \in UserIds, digits \in IdParams, f \in OppFaults :
          /\ FailedWhole(UpdateOpportunityIO(Store, f, actor, [id |-> digits], Retitled))
          /\ \A updates \in PatchBodiesIO :
                FailedWhole(PatchOpportunityIO(Store, f, actor, [id |-> digits], updates))
          /\ FailedWhole(DeleteOpportunityIO(Store, f, actor, [id |-> digits]))
    /\ \A actor \in UserIds, digits \in IdParams, f \in AppFaults :
          FailedWhole(ApplyToOpportunityIO(Store, f, actor, [id |-> digits]))

----------------------------------------------------------------------------
(* Application status transitions *)

ApplicationStatuses == {"pending", "reviewed", "accepted", "rejected"}

\* the store in which the k-th Application stands at the given status
WithApplicationStatus(st, k, current) ==
    [st EXCEPT !.apps[k] = Merge(st.apps[k], [status |-> current])]

\* C21: whatever status an existing Application currently has, a request by
\* the owning Company or an Admin to set it to pending, reviewed, accepted or
\* rejected is permitted: it is answered 200 and the Application then has the
\* requested status.
C21_EveryTransitionPermitted ==
    \A actor \in UserIds, route \in Routes :
        \A k \in 1..Len(applications) :
            MayDecide(actor, applications[k]) =>
                \A current \in ApplicationStatuses, status \in ApplicationStatuses :
                    LET r == UpdateApplicationStatusHandler(
                                 WithApplicationStatus(Store, k, current), actor,
                                 RouteParams(route, <<applications[k].id>>), status)
                    IN  /\ r.res.code = 200
                        /\ r.apps[k].status = status

----------------------------------------------------------------------------
(* Relevance scoring for an LP *)

\* the expertiseNeeded lists an Admin posts with an opportunity
NeededLists ==
    { << <<"m", "a", "r">> >>,
      << <<"m">>, <<"A">>, <<"z">> >>,
      << <<"f">>, <<"z">> >> }

\* bodies of POST /api/admin/opportunities, with and without expertiseNeeded
AdminBodiesLP ==
    {[title |-> <<"a">>, companyName |-> <<"c">>, description |-> <<"d">>]}
    \cup {[title |-> <<"a">>, companyName |-> <<"c">>, description |-> <<"d">>,
           expertiseNeeded |-> list] : list \in NeededLists}

AdminCreateOpportunityLP ==
    \E actor \in UserIds, body \in AdminBodiesLP :
        Commit(AdminCreateOpportunityHandler(Store, actor, body))

LpGetOpportunities ==
    \E actor \in UserIds : Commit(LpGetOpportunitiesHandler(Store, actor))

NextLP ==
    \/ CreateOpportunity
    \/ AdminCreateOpportunityLP
    \/ PatchOpportunity
    \/ LpGetOpportunities

SpecLP == Init /\ [][NextLP]_vars

\* the Opportunity's requiredExpertise, none when the record has no such field
RequiredExpertise(opp) ==
    IF Has(opp, "requiredExpertise") THEN opp.requiredExpertise ELSE <<>>

\* round(100 * overlapCount / max(1, |requiredExpertise|))
SpecifiedScore(opp, user) ==
    LET required == RequiredExpertise(opp)
    IN  RoundedPercent(MatchCount(required, UserExpertise(user)),
                       IF Len(required) > 1 THEN Len(required) ELSE 1)

BestFirst(list) ==
    \A m \in 1..Len(list), n \in 1..Len(list) :
        m < n => list[m].matchScore >= list[n].matchScore

\* C22: every opportunity the LP-oriented listing returns carries
\* matchScore = round(100 * overlapCount / max(1, |requiredExpertise|)), the
\* overlap counted over its requiredExpertise against the LP's expertise (0
\* when requiredExpertise is empty), and the list is in descending order of
\* matchScore.
C22_MatchScoreAsSpecified ==
    \A actor \in LPs :
        LET r == LpGetOpportunitiesHandler(Store, actor)
        IN  /\ r.res.code = 200
            /\ \A n \in 1..Len(r.res.list) :
                  r.res.list[n].matchScore = SpecifiedScore(r.res.list[n], GetUserById(actor))
            /\ BestFirst(r.res.list)

\* what the handler computes: the score over expertiseNeeded, 50 when that
\* list is empty or absent, best first, and nothing written
MatchScoreOverExpertiseNeeded ==
    \A actor \in LPs :
        LET r == LpGetOpportunitiesHandler(Store, actor)
            user == GetUserById(actor)
        IN  /\ Unchanged(Store, r)
            /\ BestFirst(r.res.list)
            /\ \A n \in 1..Len(r.res.list) :
                  LET needed == ScoredExpertise(r.res.list[n])
                  IN  r.res.list[n].matchScore =
                          IF needed = <<>> THEN NeutralScore
                          ELSE RoundedPercent(MatchCount(needed, UserExpertise(user)),
                                              Len(needed))

----------------------------------------------------------------------------
(* Requests in flight.  Node runs a handler until its next await; every    *)
(* await of the handlers is a DataService call, and every DataService call *)
(* reads a whole file, or reads it and writes it whole.  A request in      *)
(* flight stands at the read or write it has issued; one step lets that    *)
(* read or write land and runs the handler to its next one.  What a write  *)
(* puts in the file was computed when the read before it landed (pending). *)
(* users.json is written by no request of this part, so the read of the    *)
(* user lands together with the read that follows it.  A write lands at    *)
(* once: a reader never gets a half-written file.                          *)

Arrived(op, actor, id, updates, pc) ==
    [Idle EXCEPT !.op = op, !.actor = actor, !.id = id, !.updates = updates, !.pc = pc]

\* the requests whose answers are kept after they are sent, for the
\* properties that speak of acknowledged writes and returned counts
Remembered == {"apply", "trackView", "patch", "list"}

\* the response is sent: what remains of the request is its answer, or
\* nothing
Done(q, code, val) ==
    IF q.op \in Remembered
    THEN [q EXCEPT !.pc = "done", !.code = code, !.val = val,
                   !.found = << >>, !.listed = << >>, !.pending = << >>, !.k = 0]
    ELSE Idle

\* the files and the request after one step
Progress(opps, apps, now, q) == [opps |-> opps, apps |-> apps, clock |-> now, q |-> q]

Waits(st, q) == Progress(st.opps, st.apps, st.clock, q)

\* the store a handler's checks see when they depend on no stored record
NoRecords == [opps |-> << >>, apps |-> << >>, clock |-> 0]

CreateOpportunitySteps(st, q) ==
    CASE q.pc = "begin" ->
            LET r == CreateOpportunityHandler(NoRecords, q.actor, q.updates)
            IN  IF r.res.code # 201
                THEN Waits(st, Done(q, r.res.code, 0))
                ELSE Waits(st, [q EXCEPT !.pc = "read"])
      [] q.pc = "read" ->
            Progress(st.opps, st.apps, st.clock + 1,
                     [q EXCEPT !.pc = "write",
                               !.pending = DsCreateOpportunity(st.opps,
                                               OpportunityData(GetUserById(q.actor), q.updates),
                                               st.clock)])
      [] q.pc = "write" ->
            Progress(q.pending, st.apps, st.clock,
                     Done(q, 201, q.pending[Len(q.pending)].id))

TrackOpportunityViewSteps(st, q) ==
    CASE q.pc = "fetch" ->
            LET i == IndexOfId(st.opps, q.id)
            IN  IF i = 0
                THEN Waits(st, Done(q, 404, 0))
                ELSE Waits(st, [q EXCEPT !.pc = "read", !.val = NewViewCount(st.opps[i])])
      [] q.pc = "read" ->
            IF IndexOfId(st.opps, q.id) = 0
            THEN Waits(st, Done(q, 200, q.val))
            ELSE Waits(st, [q EXCEPT !.pc = "write",
                                     !.pending = DsUpdateOpportunity(st.opps, q.id,
                                                     [viewCount |-> q.val])])
      [] q.pc = "write" ->
            Progress(q.pending, st.apps, st.clock, Done(q, 200, q.val))

PatchOpportunitySteps(st, q) ==
    CASE q.pc = "fetch" ->
            LET r == PatchOpportunityHandler(st, q.actor, [id |-> <<q.id>>], q.updates)
            IN  IF r.res.code # 200
                THEN Waits(st, Done(q, r.res.code, 0))
                ELSE Waits(st, [q EXCEPT !.pc = "read"])
      [] q.pc = "read" ->
            IF IndexOfId(st.opps, q.id) = 0
            THEN Waits(st, Done(q, 500, 0))
            ELSE Waits(st, [q EXCEPT !.pc = "write",
                                     !.pending = DsUpdateOpportunity(st.opps, q.id, q.updates)])
      [] q.pc = "write" ->
            Progress(q.pending, st.apps, st.clock, Done(q, 200, 0))

DeleteOpportunitySteps(st, q) ==
    CASE q.pc = "fetch" ->
            LET r == DeleteOpportunityHandler(st, q.actor, [id |-> <<q.id>>])
            IN  IF r.res.code # 200
                THEN Waits(st, Done(q, r.res.code, 0))
                ELSE Waits(st, [q EXCEPT !.pc = "read"])
      [] q.pc = "read" ->
            LET filtered == DsDeleteOpportunity(st.opps, q.id)
            IN  IF Len(filtered) = Len(st.opps)
                THEN Waits(st, Done(q, 500, 0))
                ELSE Waits(st, [q EXCEPT !.pc = "write", !.pending = filtered])
      [] q.pc = "write" ->
            Progress(q.pending, st.apps, st.clock, Done(q, 200, 0))

ApplyToOpportunitySteps(st, q) ==
    LET user == GetUserById(q.actor)
    IN  CASE q.pc = "fetch" ->
                LET i == IndexOfId(st.opps, q.id)
                IN  IF ~IsLP(user) THEN Waits(st, Done(q, 403, 0))
                    ELSE IF i = 0 THEN Waits(st, Done(q, 404, 0))
                    ELSE IF ~OpenForApplications(st.opps[i]) THEN Waits(st, Done(q, 400, 0))
                    ELSE Waits(st, [q EXCEPT !.pc = "check", !.found = <<st.opps[i]>>])
          [] q.pc = "check" ->
                IF DsHasApplied(st.apps, user.id, q.id)
                THEN Waits(st, Done(q, 400, 0))
                ELSE Waits(st, [q EXCEPT !.pc = "read"])
          [] q.pc = "read" ->
                LET apps == DsCreateApplication(st.apps,
                                ApplicationData(user, q.id, q.found[1]), st.clock)
                IN  Progress(st.opps, st.apps, st.clock + 1,
                             [q EXCEPT !.pc = "write", !.pending = apps,
                                       !.val = apps[Len(apps)].id])
          [] q.pc = "write" ->
                Progress(st.opps, q.pending, st.clock,
                         [q EXCEPT !.pc = "count", !.pending = << >>])
          [] q.pc = "count" ->
                Waits(st, [q EXCEPT !.pc = "syncRead",
                                    !.k = Len(DsGetApplicationsByOpportunity(st.apps, q.id))])
          [] q.pc = "syncRead" ->
                IF IndexOfId(st.opps, q.id) = 0
                THEN Waits(st, Done(q, 201, q.val))
                ELSE Waits(st, [q EXCEPT !.pc = "syncWrite",
                                         !.pending = DsUpdateOpportunity(st.opps, q.id,
                                                         [applicantCount |-> q.k])])
          [] q.pc = "syncWrite" ->
                Progress(q.pending, st.apps, st.clock, Done(q, 201, q.val))

\* the listing moves on to the next listed opportunity, to the hasApplied
\* reads of an LP, or to its response
NextListed(q) ==
    IF q.k < Len(q.listed)
    THEN [q EXCEPT !.pc = "count", !.k = q.k + 1, !.pending = << >>]
    ELSE IF IsLP(GetUserById(q.actor))
    THEN [q EXCEPT !.pc = "applied", !.k = 1, !.pending = << >>]
    ELSE Done(q, 200, 0)

GetOpportunitiesSteps(st, q) ==
    LET user == GetUserById(q.actor)
    IN  CASE q.pc = "list" ->
                LET listed == SortNewestFirst(
                                  SelectSeq(st.opps, LAMBDA o : Selected(user, q.updates, o)))
                IN  IF listed = << >>
                    THEN Waits(st, Done(q, 200, 0))
                    ELSE Waits(st, [q EXCEPT !.pc = "count", !.listed = listed, !.k = 1])
          [] q.pc = "count" ->
                IF CountDiffers(st.apps, q.listed[q.k])
                THEN Waits(st, [q EXCEPT !.pc = "syncRead",
                                         !.val = ActualCount(st.apps, q.listed[q.k])])
                ELSE Waits(st, NextListed(q))
          [] q.pc = "syncRead" ->
                IF IndexOfId(st.opps, q.listed[q.k].id) = 0
                THEN Waits(st, NextListed(q))
                ELSE Waits(st, [q EXCEPT !.pc = "syncWrite",
                                         !.pending = DsUpdateOpportunity(st.opps,
                                                         q.listed[q.k].id,
                                                         [applicantCount |-> q.val])])
          [] q.pc = "syncWrite" ->
                Progress(q.pending, st.apps, st.clock, NextListed(q))
          [] q.pc = "applied" ->
                IF q.k < Len(q.listed)
                THEN Waits(st, [q EXCEPT !.k = q.k + 1])
                ELSE Waits(st, Done(q, 200, 0))

\* one step of the request q
Steps(st, q) ==
    CASE q.op = "create" -> CreateOpportunitySteps(st, q)
      [] q.op = "trackView" -> TrackOpportunityViewSteps(st, q)
      [] q.op = "patch" -> PatchOpportunitySteps(st, q)
      [] q.op = "delete" -> DeleteOpportunitySteps(st, q)
      [] q.op = "apply" -> ApplyToOpportunitySteps(st, q)
      [] q.op = "list" -> GetOpportunitiesSteps(st, q)

Running(q) == q.pc \notin {"idle", "done"}

\* a request arrives and takes the first idle place.  peers records the
\* places whose present request ran while this one did: the arriving request
\* overlaps the requests then running, and they overlap it
Begin(s, q) ==
    /\ inflight[s].pc = "idle"
    /\ \A t \in Slots : t < s => inflight[t].pc # "idle"
    /\ inflight' =
          [t \in Slots |->
              IF t = s
              THEN [q EXCEPT !.peers = {u \in Slots : Running(inflight[u])}]
              ELSE IF Running(inflight[t])
              THEN [inflight[t] EXCEPT !.peers = @ \cup {s}]
              ELSE [inflight[t] EXCEPT !.peers = @ \ {s}]]
    /\ UNCHANGED <<opportunities, applications, clock, userStatus>>

\* the requests of the interleaved runs: Company 1 posts opportunities,
\* marks the first as filled and deletes the second; the LPs apply to the
\* first; LP 2 views the second; the Admin lists all
BeginCreateOpportunity ==
    \E s \in Slots : Begin(s, Arrived("create", 1, 0, GoodBody, "begin"))

BeginTrackOpportunityView ==
    \E s \in Slots : Begin(s, Arrived("trackView", 2, 2, << >>, "fetch"))

BeginPatchOpportunity ==
    \E s \in Slots : Begin(s, Arrived("patch", 1, 1, [status |-> "filled"], "fetch"))

BeginDeleteOpportunity ==
    \E s \in Slots : Begin(s, Arrived("delete", 1, 2, << >>, "fetch"))

BeginApplyToOpportunity ==
    \E s \in Slots, actor \in LPs : Begin(s, Arrived("apply", actor, 1, << >>, "fetch"))

BeginGetOpportunities ==
    \E s \in Slots : Begin(s, Arrived("list", 5, 0, [status |-> "all"], "list"))

\* the pending read or write of one request lands
Resume ==
    \E s \in Slots :
        /\ Running(inflight[s])
        /\ LET out == Steps(Store, inflight[s])
           IN  /\ Len(out.opps) <= MaxOpps
               /\ Len(out.apps) <= MaxApps
               /\ Len(out.q.pending) <= MaxOpps
               /\ out.clock <= MaxClock
               /\ \A i \in 1..Len(out.opps) :
                     Num(out.opps[i], "viewCount") <= MaxViews
               /\ opportunities' = out.opps
               /\ applications' = out.apps
               /\ clock' = out.clock
               /\ inflight' = [inflight EXCEPT ![s] = out.q]
        /\ UNCHANGED userStatus

\* a kept answer is dropped; the place is free again
Respond ==
    \E s \in Slots :
        /\ inflight[s].pc = "done"
        /\ inflight' = [inflight EXCEPT ![s] = Idle]
        /\ UNCHANGED <<opportunities, applications, clock, userStatus>>

NextInFlight ==
    \/ BeginCreateOpportunity
    \/ BeginTrackOpportunityView
    \/ BeginPatchOpportunity
    \/ BeginDeleteOpportunity
    \/ BeginApplyToOpportunity
    \/ BeginGetOpportunities
    \/ Resume
    \/ Respond

SpecInFlight == Init /\ [][NextInFlight]_vars

\* the requests in the places s and t ran at the same time
Overlapped(s, t) == t \in inflight[s].peers /\ s \in inflight[t].peers

\* the request in place s is an answered one of that kind and code
Answered(s, op, code) ==
    inflight[s].pc = "done" /\ inflight[s].op = op /\ inflight[s].code = code

\* C23: in every reachable state, with apply requests of one LP for one
\* opportunity interleaving at their reads and writes, no two stored
\* Applications have the same lpId and the same opportunityId.
C23_OneApplicationPerLpAndOpportunity ==
    \A i \in 1..Len(applications), j \in 1..Len(applications) :
        (/\ applications[i].lpId = applications[j].lpId
         /\ applications[i].opportunityId = applications[j].opportunityId) => i = j

\* C24: an apply that was answered 201 has its Application in the stored
\* collection, under the id it was answered with, also when applies of
\* different LPs interleave.
C24_AcknowledgedApplicationStored ==
    \A s \in Slots :
        Answered(s, "apply", 201) =>
            \E k \in 1..Len(applications) :
                /\ applications[k].id = inflight[s].val
                /\ applications[k].lpId = inflight[s].actor
                /\ applications[k].opportunityId = inflight[s].id

\* C25: two view requests on one opportunity that ran at the same time and
\* were both answered 200 returned different viewCounts, and the stored
\* viewCount is two above what it was before them.
C25_OverlappingViewsAllCounted ==
    \A s \in Slots, t \in Slots :
        (/\ s # t
         /\ Overlapped(s, t)
         /\ Answered(s, "trackView", 200)
         /\ Answered(t, "trackView", 200)
         /\ inflight[s].id = inflight[t].id
         /\ inflight[s].val <= inflight[t].val
         /\ IndexOfId(opportunities, inflight[s].id) # 0) =>
            /\ inflight[s].val # inflight[t].val
            /\ Num(opportunities[IndexOfId(opportunities, inflight[s].id)], "viewCount")
                   = inflight[s].val + 1

\* C26: a patch that was answered 200 stays stored when the only request
\* that ran at the same time was a view of another opportunity or a listing
\* with its count corrections: the patched opportunity still has the status
\* the patch gave it.
C26_AcknowledgedPatchStaysStored ==
    \A s \in Slots, t \in Slots :
        (/\ Answered(s, "patch", 200)
         /\ Overlapped(s, t)
         /\ inflight[t].op \in {"trackView", "list"}
         /\ inflight[t].id # inflight[s].id
         /\ IndexOfId(opportunities, inflight[s].id) # 0) =>
            opportunities[IndexOfId(opportunities, inflight[s].id)].status
                = inflight[s].updates.status

----------------------------------------------------------------------------
(* Identifiers *)

\* C27: an opportunity that create has just stored is referenced by no
\* Application: its id was not the id of an earlier opportunity, so no stored
\* Application names it, its applicantCount of 0 is its actual count, and no
\* LP has applied to it.
C27_NewOpportunityUnreferenced ==
    \A actor \in UserIds, body \in OppBodies :
        LET r == CreateOpportunityHandler(Store, actor, body)
            new == r.opps[Len(r.opps)]
        IN  r.res.code = 201 =>
                /\ Referencing(r.apps, new.id) = {}
                /\ StoredCount(new) = Cardinality(Referencing(r.apps, new.id))
                /\ \A lp \in LPs : ~DsHasApplied(r.apps, lp, new.id)

\* no two records of the collection have the same id
UniqueIds(coll) ==
    \A i \in 1..Len(coll), j \in 1..Len(coll) : coll[i].id = coll[j].id => i = j

\* bodies of PATCH /api/opportunities/:id that name an id
IdPatches == {[id |-> n] : n \in 1..MaxIdParam}

\* C28: the stored opportunities have distinct ids and the stored
\* Applications have distinct ids, and they still have after any further
\* create, apply, update, patch or delete.
C28_IdsUniqueInEachCollection ==
    /\ UniqueIds(opportunities)
    /\ UniqueIds(applications)
    /\ \A actor \in UserIds :
          /\ \A body \in OppBodies :
                UniqueIds(CreateOpportunityHandler(Store, actor, body).opps)
          /\ \A digits \in IdParams :
                /\ UniqueIds(ApplyToOpportunityHandler(Store, actor, [id |-> digits]).apps)
                /\ UniqueIds(DeleteOpportunityHandler(Store, actor, [id |-> digits]).opps)
                /\ \A body \in PutBodies :
                      UniqueIds(UpdateOpportunityHandler(Store, actor, [id |-> digits], body).opps)
                /\ \A updates \in PatchBodies \cup IdPatches :
                      UniqueIds(PatchOpportunityHandler(Store, actor, [id |-> digits], updates).opps)

----------------------------------------------------------------------------
(* What a listing writes *)

\* the two records agree on every field other than applicantCount
SameButCount(a, b) ==
    \A f \in (DOMAIN a \cup DOMAIN b) \ {"applicantCount"} :
        Has(a, f) /\ Has(b, f) /\ a[f] = b[f]

\* every opportunity the listing returned was stored with its actual count
ListedInSync(r) ==
    \A n \in 1..Len(r.res.list) :
        InSync(opportunities, applications, StoredIndex(opportunities, r.res.list[n]))

\* C29: a listing, run with no other request, leaves every stored
\* opportunity as it was but for its applicantCount, leaves the store as it
\* was when every listed opportunity was stored with its actual count, and
\* leaves the Applications as they were.
C29_ListingWritesCountsOnly ==
    \A actor \in UserIds, query \in FilterSets :
        LET r == GetOpportunitiesHandler(Store, actor, query)
        IN  /\ r.apps = applications
            /\ Len(r.opps) = Len(opportunities)
            /\ \A i \in 1..Len(opportunities) : SameButCount(r.opps[i], opportunities[i])
            /\ ListedInSync(r) => r.opps = opportunities

\* one listing corrects a stored count while another, which lists only
\* opportunities stored with their actual counts, passes over a stored
\* opportunity whose count is off
C29_Witness ==
    /\ Len(applications) > 0
    /\ \E actor \in UserIds, query \in FilterSets :
          GetOpportunitiesHandler(Store, actor, query).opps # opportunities
    /\ \E actor \in UserIds, query \in FilterSets :
          LET r == GetOpportunitiesHandler(Store, actor, query)
          IN  /\ ListedInSync(r)
              /\ Len(r.res.list) > 0
              /\ \E i \in 1..Len(opportunities) : ~InSync(opportunities, applications, i)

----------------------------------------------------------------------------
(* Account status.  PATCH /api/admin/users/:id/status, behind               *)
(* requireRole('Admin'), writes the status of an account.  authMiddleware  *)
(* accepts a request on the signature and expiry of its token, login       *)
(* issues a token to any account that gives its password, and the handlers *)
(* read the role of the user they load and nothing else of it: no operator *)
(* of this module other than the one below takes userStatus.               *)

UserStatuses == {"active", "inactive", "pending"}

\* dataService.updateUser(id, { status }): the statuses it leaves
DsUpdateUserStatus(statuses, id, status) ==
    IF id \in DOMAIN statuses THEN [statuses EXCEPT ![id] = status] ELSE statuses

\* the statuses updateUserStatus leaves and the code it answers
UpdateUserStatusHandler(statuses, actor, params, status) ==
    LET id == ParseInt(params, "id")
    IN  IF ~RoleAllowed(actor, {"Admin"})
        THEN [statuses |-> statuses, code |-> 403]
        ELSE IF status \notin UserStatuses
        THEN [statuses |-> statuses, code |-> 400]
        ELSE IF id \notin DOMAIN statuses
        THEN [statuses |-> statuses, code |-> 404]
        ELSE [statuses |-> DsUpdateUserStatus(statuses, id, status), code |-> 200]

\* status values sent to PATCH /api/admin/users/:id/status
UserStatusInputs == {"inactive", "active", "banned"}

UpdateUserStatus ==
    \E actor \in UserIds, digits \in IdParams, status \in UserStatusInputs :
        /\ userStatus' = UpdateUserStatusHandler(userStatus, actor, [id |-> digits], status).statuses
        /\ UNCHANGED <<opportunities, applications, clock, inflight>>

NextUsers ==
    \/ UpdateUserStatus
    \/ CreateOpportunity
    \/ DeleteOpportunity
    \/ ApplyToOpportunity
    \/ UpdateApplicationStatus

SpecUsers == Init /\ [][NextUsers]_vars

\* C30: while the status of a user is inactive, every create, update, patch,
\* delete, apply and application status request of that user is rejected and
\* leaves the stored records as they were.
C30_InactiveUserChangesNothing ==
    \A actor \in UserIds :
        userStatus[actor] = "inactive" =>
            /\ \A body \in OppBodies :
                  FailedWhole(CreateOpportunityHandler(Store, actor, body))
            /\ \A digits \in IdParams :
                  /\ \A body \in PutBodies :
                        FailedWhole(UpdateOpportunityHandler(Store, actor, [id |-> digits], body))
                  /\ \A updates \in PatchBodies :
                        FailedWhole(PatchOpportunityHandler(Store, actor, [id |-> digits], updates))
                  /\ FailedWhole(DeleteOpportunityHandler(Store, actor, [id |-> digits]))
                  /\ FailedWhole(ApplyToOpportunityHandler(Store, actor, [id |-> digits]))
                  /\ \A route \in Routes, status \in ApplicationStatuses :
                        FailedWhole(UpdateApplicationStatusHandler(Store, actor,
                                        RouteParams(route, digits), status))

====
